---- MODULE Spec2Model ----
(***************************************************************************)
(* Model of the repository parser of fluxio-agents                         *)
(* (src/src/parser/code_parser.py): the chunker (_chunk_content), the      *)
(* structural extractor (PythonStructureVisitor driven by module.visit)    *)
(* and the repository walker (parse_repository / parse_file).              *)
(*                                                                         *)
(* Text is a sequence of runs <<ch, n>>: n copies of one character class.  *)
(* "nl" is the newline, "sp" is whitespace, anything else is ordinary      *)
(* text.  Lines are 0-based as in the code; sequences are 1-based, so line *)
(* i of the code is lines[i + 1].                                          *)
(***************************************************************************)
EXTENDS Integers, Sequences, FiniteSets, TLC

VARIABLES
    \* ---- _chunk_content, one loop iteration at a time
    content, language, lines, i, current_chunk, current_chunk_start, chunks, cpc,
    \* ---- PythonStructureVisitor under module.visit(visitor)
    tree, posMode, agenda, visitor, vpc,
    \* ---- parse_repository
    rootExists, repo, idx, parsed_files, pc

chunkVars == <<content, language, lines, i, current_chunk, current_chunk_start, chunks, cpc>>
visitVars == <<tree, agenda, visitor, vpc>>
walkVars == <<rootExists, repo, idx, parsed_files, pc>>
vars == <<chunkVars, visitVars, posMode, walkVars>>

(***************************************************************************)
(* Bounds and program constants                                            *)
(***************************************************************************)
\* longest generated content, in runs
MaxLen == 5
\* most nodes of a generated syntax tree
MaxNodes == 4
\* most files of a generated repository
MaxFiles == 3
\* the chunk size limit of _chunk_content
ChunkLimit == 1000

None == "None"

(***************************************************************************)
(* Strings                                                                 *)
(***************************************************************************)
NL == <<"nl", 1>>

IsSpace(r) == r[1] \in {"sp", "nl"}

RECURSIVE StrLen(_)
\* len(s)
StrLen(s) == IF s = <<>> THEN 0 ELSE s[1][2] + StrLen(Tail(s))

RECURSIVE Split(_)
\* s.split("\n"): always at least one line
Split(s) ==
    IF \A k \in 1..Len(s) : s[k] # NL
    THEN <<s>>
    ELSE LET k == CHOOSE k \in 1..Len(s) : s[k] = NL /\ \A j \in 1..(k - 1) : s[j] # NL
         IN <<SubSeq(s, 1, k - 1)>> \o Split(SubSeq(s, k + 1, Len(s)))

RECURSIVE Join(_)
\* "\n".join(ls)
Join(ls) ==
    IF ls = <<>> THEN <<>>
    ELSE IF Len(ls) = 1 THEN ls[1]
    ELSE ls[1] \o <<NL>> \o Join(Tail(ls))

RECURSIVE LStrip(_)
LStrip(s) == IF s # <<>> /\ IsSpace(s[1]) THEN LStrip(Tail(s)) ELSE s

RECURSIVE RStrip(_)
RStrip(s) == IF s # <<>> /\ IsSpace(s[Len(s)]) THEN RStrip(SubSeq(s, 1, Len(s) - 1)) ELSE s

\* line.strip()
Strip(s) == RStrip(LStrip(s))

(***************************************************************************)
(* _chunk_content                                                          *)
(***************************************************************************)
\* the loop's locals before the first iteration
ChunkStart == [i |-> 0, current_chunk |-> <<>>, current_chunk_start |-> 0, chunks |-> <<>>]

\* the iteration without the size test (a chunker that only splits on blank lines)
ChunkIterNoLimit(ls, lang, st) ==
    LET line == ls[st.i + 1]
        cur == Append(st.current_chunk, line)
    IN IF Strip(line) = <<>> \/ st.i = Len(ls) - 1
       THEN [i |-> st.i + 1, current_chunk |-> <<>>, current_chunk_start |-> st.i + 1,
             chunks |-> IF cur # <<>>
                        THEN Append(st.chunks, [content |-> Join(cur),
                                                start_line |-> st.current_chunk_start,
                                                end_line |-> st.i,
                                                language |-> lang])
                        ELSE st.chunks]
       ELSE [st EXCEPT !.i = st.i + 1, !.current_chunk = cur]

\* the iteration restarting the next chunk on the closing line itself
ChunkIterOverlap(ls, lang, st) ==
    LET line == ls[st.i + 1]
        cur == Append(st.current_chunk, line)
    IN IF Strip(line) = <<>> \/ st.i = Len(ls) - 1 \/ StrLen(Join(cur)) > ChunkLimit
       THEN [i |-> st.i + 1, current_chunk |-> <<>>, current_chunk_start |-> st.i,
             chunks |-> IF cur # <<>>
                        THEN Append(st.chunks, [content |-> Join(cur),
                                                start_line |-> st.current_chunk_start,
                                                end_line |-> st.i,
                                                language |-> lang])
                        ELSE st.chunks]
       ELSE [st EXCEPT !.i = st.i + 1, !.current_chunk = cur]

\* the iteration joining a chunk's lines without the separator
ChunkIterNoSep(ls, lang, st) ==
    LET line == ls[st.i + 1]
        cur == Append(st.current_chunk, line)
        glued == IF st.current_chunk = <<>> THEN line ELSE Join(st.current_chunk) \o line
    IN IF Strip(line) = <<>> \/ st.i = Len(ls) - 1 \/ StrLen(Join(cur)) > ChunkLimit
       THEN [i |-> st.i + 1, current_chunk |-> <<>>, current_chunk_start |-> st.i + 1,
             chunks |-> IF cur # <<>>
                        THEN Append(st.chunks, [content |-> glued,
                                                start_line |-> st.current_chunk_start,
                                                end_line |-> st.i,
                                                language |-> lang])
                        ELSE st.chunks]
       ELSE [st EXCEPT !.i = st.i + 1, !.current_chunk = cur]

\* one iteration of `for i, line in enumerate(lines)`, for 0 <= st.i < len(lines)
ChunkIter(ls, lang, st) ==
    LET line == ls[st.i + 1]
        cur == Append(st.current_chunk, line)
    IN IF Strip(line) = <<>> \/ st.i = Len(ls) - 1 \/ StrLen(Join(cur)) > ChunkLimit
       THEN [i |-> st.i + 1, current_chunk |-> <<>>, current_chunk_start |-> st.i + 1,
             chunks |-> IF cur # <<>>
                        THEN Append(st.chunks, [content |-> Join(cur),
                                                start_line |-> st.current_chunk_start,
                                                end_line |-> st.i,
                                                language |-> lang])
                        ELSE st.chunks]
       ELSE [st EXCEPT !.i = st.i + 1, !.current_chunk = cur]

RECURSIVE ChunkLoop(_, _, _)
ChunkLoop(ls, lang, st) ==
    IF st.i >= Len(ls) THEN st.chunks ELSE ChunkLoop(ls, lang, ChunkIter(ls, lang, st))

\* _chunk_content(content, language), start to return
ChunkContent(text, lang) == ChunkLoop(Split(text), lang, ChunkStart)

(***************************************************************************)
(* Syntax trees: what self.python_parser(content) hands to the visitor.    *)
(* A node is [kind, name, start, end, params, bases, names, body]; body    *)
(* holds the statements nested in the node (its child nodes that can be    *)
(* definitions or imports).  start/end are the lines of its start_pos and  *)
(* end_pos.                                                                *)
(***************************************************************************)
CompoundKinds == {"FunctionDef", "ClassDef", "If"}
ImportKinds == {"Import", "ImportFrom"}

\* how the parser's nodes answer node.start_pos / node.end_pos: with a
\* (line, column) pair, with a falsy value, or with no such attribute.  The
\* code reads the attribute on every class and function node and provides for
\* the first two answers itself; nodes that keep their positions outside the
\* node (libcst's, which answer through a metadata provider) give the third.
PosModes == {"tuple", "none", "missing"}

\* node.start_pos[0] if node.start_pos else 0
StartLine(node) == IF posMode = "tuple" THEN node.start ELSE 0

\* node.end_pos[0] if node.end_pos else 0
EndLine(node) == IF posMode = "tuple" THEN node.end ELSE 0

\* reading node.start_pos raises AttributeError
PosRaises == posMode = "missing"

(***************************************************************************)
(* PythonStructureVisitor                                                  *)
(***************************************************************************)
\* __init__; current_class is 0 for None, else the index in classes of the
\* class_info dict it refers to
NewVisitor == [classes |-> <<>>, functions |-> <<>>, imports |-> <<>>, current_class |-> 0]

FunctionInfo(node) ==
    [name |-> node.name, start_line |-> StartLine(node), end_line |-> EndLine(node),
     parameters |-> node.params]

\* visit_FunctionDef (the handler's effect when it does not raise)
visit_FunctionDef(v, node) ==
    IF v.current_class # 0
    THEN [v EXCEPT !.classes[v.current_class].methods = Append(@, FunctionInfo(node))]
    ELSE [v EXCEPT !.functions = Append(@, FunctionInfo(node))]

RECURSIVE VisitMethods(_, _)
\* for statement in node.body.body: if isinstance(statement, cst.FunctionDef): ...
VisitMethods(v, body) ==
    IF body = <<>> THEN v
    ELSE VisitMethods(IF body[1].kind = "FunctionDef" THEN visit_FunctionDef(v, body[1]) ELSE v,
                      Tail(body))

\* the bases expressible as a simple name
RECURSIVE SimpleBases(_)
SimpleBases(bases) ==
    IF bases = <<>> THEN <<>>
    ELSE (IF bases[1].simple THEN <<bases[1].value>> ELSE <<>>) \o SimpleBases(Tail(bases))

ClassInfo(node) ==
    [name |-> node.name, start_line |-> StartLine(node), end_line |-> EndLine(node),
     methods |-> <<>>, bases |-> SimpleBases(node.bases)]

\* visit_ClassDef (the handler's effect when it does not raise)
visit_ClassDef(v, node) ==
    LET prev_class == v.current_class
        entered == [v EXCEPT !.classes = Append(@, ClassInfo(node)),
                             !.current_class = Len(v.classes) + 1]
        walked == VisitMethods(entered, node.body)
    IN [walked EXCEPT !.current_class = prev_class]

RECURSIVE ImportEntries(_, _)
ImportEntries(node, names) ==
    IF names = <<>> THEN <<>>
    ELSE <<IF node.kind = "Import"
           THEN [type |-> "import", name |-> names[1].name, alias |-> names[1].alias]
           ELSE [type |-> "import_from", module |-> node.name, name |-> names[1].name,
                 alias |-> names[1].alias]>>
         \o ImportEntries(node, Tail(names))

\* visit_Import and visit_ImportFrom
visit_Import(v, node) == [v EXCEPT !.imports = @ \o ImportEntries(node, node.names)]

\* CSTVisitor.on_visit: the handler named after the node's type, if any
OnVisit(v, node) ==
    CASE node.kind = "ClassDef" -> visit_ClassDef(v, node)
      [] node.kind = "FunctionDef" -> visit_FunctionDef(v, node)
      [] node.kind \in ImportKinds -> visit_Import(v, node)
      [] OTHER -> v

\* the handler for this node raises before it changes anything
OnVisitRaises(node) == node.kind \in {"ClassDef", "FunctionDef"} /\ PosRaises

\* No handler returns False, so after on_visit the traversal goes on into the
\* node's children, depth first, before the node's following siblings.
Descend(node, rest) == node.body \o rest

RECURSIVE VisitAll(_, _)
\* module.visit(visitor): the visitor at the end, or "raised"
VisitAll(v, todo) ==
    IF todo = <<>> THEN [raised |-> FALSE, visitor |-> v]
    ELSE IF OnVisitRaises(todo[1]) THEN [raised |-> TRUE, visitor |-> v]
    ELSE VisitAll(OnVisit(v, todo[1]), Descend(todo[1], Tail(todo)))

(***************************************************************************)
(* Generated syntax trees                                                  *)
(***************************************************************************)
NamePool == <<"n1", "n2", "n3", "n4", "n5", "n6", "n7", "n8">>

RECURSIVE Forests(_)
RECURSIVE TreesOf(_)
\* the unlabelled trees of exactly n nodes
TreesOf(n) ==
    {[kind |-> k, body |-> b] : k \in CompoundKinds, b \in Forests(n - 1)}
    \cup (IF n = 1 THEN {[kind |-> k, body |-> <<>>] : k \in ImportKinds} ELSE {})

\* the statement lists of exactly n nodes in all
Forests(n) ==
    IF n = 0 THEN {<<>>}
    ELSE UNION {{<<t>> \o r : t \in TreesOf(j), r \in Forests(n - j)} : j \in 1..n}

RECURSIVE Size(_)
RECURSIVE SizeAll(_)
Size(t) == 1 + SizeAll(t.body)
SizeAll(f) == IF f = <<>> THEN 0 ELSE Size(f[1]) + SizeAll(Tail(f))

RECURSIVE NLines(_)
RECURSIVE NLinesAll(_)
\* a header line and the body (a lone `pass` when it holds no statement)
NLines(t) ==
    IF t.kind \in ImportKinds THEN 1
    ELSE 1 + (IF t.body = <<>> THEN 1 ELSE NLinesAll(t.body))
NLinesAll(f) == IF f = <<>> THEN 0 ELSE NLines(f[1]) + NLinesAll(Tail(f))

RECURSIVE LabelNode(_, _, _)
RECURSIVE LabelAll(_, _, _)
\* names in preorder, 1-based lines as the statements are laid out
LabelNode(t, id, line) ==
    [kind |-> t.kind, name |-> NamePool[id], start |-> line, end |-> line + NLines(t) - 1,
     params |-> <<>>, bases |-> <<>>,
     names |-> IF t.kind \in ImportKinds THEN <<[name |-> NamePool[id], alias |-> None]>>
               ELSE <<>>,
     body |-> LabelAll(t.body, id + 1, line + 1)]
LabelAll(f, id, line) ==
    IF f = <<>> THEN <<>>
    ELSE <<LabelNode(f[1], id, line)>>
         \o LabelAll(Tail(f), id + Size(f[1]), line + NLines(f[1]))

Modules == {LabelAll(f, 1, 1) : f \in UNION {Forests(n) : n \in 0..MaxNodes}}

(***************************************************************************)
(* CodeParser: parse_file and the two per-language parsers                 *)
(***************************************************************************)
\* self.supported_languages
SupportedLanguages ==
    (".py" :> "python") @@ (".js" :> "javascript") @@ (".ts" :> "typescript")
    @@ (".java" :> "java") @@ (".cpp" :> "cpp") @@ (".c" :> "c") @@ (".go" :> "go")
    @@ (".rb" :> "ruby") @@ (".rs" :> "rust")

\* str.lower() on the suffixes that occur
Lower(ext) ==
    CASE ext = ".PY" -> ".py"
      [] ext = ".Go" -> ".go"
      [] ext = ".MD" -> ".md"
      [] OTHER -> ext

\* ext in self.supported_languages
Eligible(file) == Lower(file.ext) \in DOMAIN SupportedLanguages

Returned(value) == [raised |-> FALSE, value |-> value]
Raised(what) == [raised |-> TRUE, value |-> what]

\* _parse_python_file: the parse or the walk may raise; both are caught
ParsePythonFile(file) ==
    LET walk == VisitAll(NewVisitor, file.tree)
        failure == IF ~file.parses THEN "ParserSyntaxError"
                   ELSE IF walk.raised THEN "AttributeError"
                   ELSE None
    IN IF failure = None
       THEN [path |-> file.name, language |-> "python",
             classes |-> walk.visitor.classes,
             functions |-> walk.visitor.functions,
             imports |-> walk.visitor.imports,
             content |-> file.content,
             chunks |-> ChunkContent(file.content, "python")]
       ELSE [path |-> file.name, language |-> "python",
             error |-> failure,
             content |-> file.content,
             chunks |-> ChunkContent(file.content, "python")]

\* _parse_generic_file
ParseGenericFile(file, lang) ==
    [path |-> file.name, language |-> lang, content |-> file.content,
     chunks |-> ChunkContent(file.content, lang)]

\* parse_file: returns the entry, or raises
ParseFile(file) ==
    IF ~Eligible(file) THEN Raised("ValueError")
    ELSE IF ~file.readable THEN Raised("IOError")
    ELSE IF SupportedLanguages[Lower(file.ext)] = "python"
         THEN Returned(ParsePythonFile(file))
         ELSE Returned(ParseGenericFile(file, SupportedLanguages[Lower(file.ext)]))

\* the loop body of parse_repository with no try around parse_file
FileStepNoCatch(parsed, file) ==
    IF Eligible(file)
    THEN LET r == ParseFile(file)
         IN IF r.raised THEN [raised |-> TRUE, parsed_files |-> parsed]
            ELSE [raised |-> FALSE, parsed_files |-> Append(parsed, r.value)]
    ELSE [raised |-> FALSE, parsed_files |-> parsed]

\* the loop body of parse_repository for one file: lines 72-80
FileStep(parsed, file) ==
    IF Eligible(file)
    THEN LET r == ParseFile(file)
         IN IF r.raised THEN [raised |-> FALSE, parsed_files |-> parsed]
            ELSE [raised |-> FALSE, parsed_files |-> Append(parsed, r.value)]
    ELSE [raised |-> FALSE, parsed_files |-> parsed]

(***************************************************************************)
(* Files                                                                   *)
(***************************************************************************)
Text(word, n) == <<word, n>>

\* "def f(x):\n    return x\n"
ContentDefF == <<Text("def f(x):", 9), NL, <<"sp", 4>>, Text("return x", 8), NL>>

\* its syntax tree
TreeDefF ==
    <<[kind |-> "FunctionDef", name |-> "f", start |-> 1, end |-> 2, params |-> <<"x">>,
       bases |-> <<>>, names |-> <<>>, body |-> <<>>]>>

\* "import os\nclass C(B, m.K):\n    def a(self): pass\n    def b(self): pass\n\ndef g(): pass"
ContentShapes ==
    <<Text("import os", 9), NL, Text("class C(B, m.K):", 16), NL,
      <<"sp", 4>>, Text("def a(self): pass", 17), NL,
      <<"sp", 4>>, Text("def b(self): pass", 17), NL, NL, Text("def g(): pass", 13)>>

TreeShapes ==
    <<[kind |-> "Import", name |-> "os", start |-> 1, end |-> 1, params |-> <<>>,
       bases |-> <<>>, names |-> <<[name |-> "os", alias |-> None]>>, body |-> <<>>],
      [kind |-> "ClassDef", name |-> "C", start |-> 2, end |-> 4, params |-> <<>>,
       bases |-> <<[simple |-> TRUE, value |-> "B"], [simple |-> FALSE, value |-> "m.K"]>>,
       names |-> <<>>,
       body |-> <<[kind |-> "FunctionDef", name |-> "a", start |-> 3, end |-> 3,
                   params |-> <<"self">>, bases |-> <<>>, names |-> <<>>, body |-> <<>>],
                  [kind |-> "FunctionDef", name |-> "b", start |-> 4, end |-> 4,
                   params |-> <<"self">>, bases |-> <<>>, names |-> <<>>, body |-> <<>>]>>],
      [kind |-> "FunctionDef", name |-> "g", start |-> 6, end |-> 6, params |-> <<>>,
       bases |-> <<>>, names |-> <<>>, body |-> <<>>]>>

\* a file of the repository: its path, its suffix, whether open/read succeed,
\* its text, whether the Python parser accepts the text, and the tree it builds
File(name, ext, readable, text, parses, syntaxTree) ==
    [name |-> name, ext |-> ext, readable |-> readable, content |-> text,
     parses |-> parses, tree |-> syntaxTree]

\* the files a repository is made of
Catalogue ==
    {File("a.py", ".py", TRUE, ContentDefF, TRUE, TreeDefF),
     File("broken.py", ".py", TRUE, <<Text("def f(:", 7), NL>>, FALSE, <<>>),
     File("secret.py", ".py", FALSE, <<>>, FALSE, <<>>),
     File("shapes.py", ".py", TRUE, ContentShapes, TRUE, TreeShapes),
     File("EMPTY.PY", ".PY", TRUE, <<>>, TRUE, <<>>),
     File("main.go", ".go", TRUE,
          <<Text("package main", 12), NL, NL, Text("func main() {}", 14), NL>>, FALSE, <<>>),
     File("locked.rs", ".rs", FALSE, <<>>, FALSE, <<>>),
     File("README.MD", ".MD", TRUE, <<Text("notes", 5)>>, FALSE, <<>>)}

RECURSIVE Listings(_)
\* the walk orders of at most n distinct files
Listings(n) ==
    IF n = 0 THEN {<<>>}
    ELSE LET shorter == Listings(n - 1)
         IN shorter \cup {Append(l, f) : l \in {t \in shorter : Len(t) = n - 1},
                                         f \in Catalogue}

Distinct(l) == \A a, b \in 1..Len(l) : a # b => l[a].name # l[b].name

Repositories == {l \in Listings(MaxFiles) : Distinct(l)}

(***************************************************************************)
(* The chunker as a process                                                *)
(***************************************************************************)
\* a newline, a blank, a short word, half a limit of text (two such lines pass
\* the limit only with their separator), one character less, and a line that
\* passes the limit on its own
Runs ==
    {NL, <<"sp", 1>>, <<"a", 1>>, <<"b", ChunkLimit \div 2>>, <<"c", (ChunkLimit \div 2) - 1>>,
     <<"d", ChunkLimit + 1>>}

RECURSIVE SeqsUpTo(_, _)
\* the sequences over S of length at most n
SeqsUpTo(S, n) ==
    IF n = 0 THEN {<<>>}
    ELSE LET shorter == SeqsUpTo(S, n - 1)
         IN shorter \cup {Append(s, x) : s \in {t \in shorter : Len(t) = n - 1}, x \in S}

Contents == SeqsUpTo(Runs, MaxLen)

Languages == {"python", "go"}

ChunkIdle ==
    /\ content = <<>> /\ language = "python" /\ lines = <<>> /\ i = 0
    /\ current_chunk = <<>> /\ current_chunk_start = 0 /\ chunks = <<>> /\ cpc = "idle"

VisitIdle ==
    /\ tree = <<>> /\ agenda = <<>> /\ vpc = "idle" /\ visitor = NewVisitor

WalkIdle ==
    /\ rootExists = FALSE /\ repo = <<>> /\ idx = 0 /\ parsed_files = <<>> /\ pc = "idle"

\* the call _chunk_content(content, language), before its first statement
InitChunk ==
    /\ content \in Contents
    /\ language \in Languages
    /\ lines = <<>> /\ i = 0 /\ current_chunk = <<>> /\ current_chunk_start = 0
    /\ chunks = <<>>
    /\ cpc = "entry"
    /\ VisitIdle /\ WalkIdle /\ posMode = "tuple"

\* lines 181-185
ChunkEnter ==
    /\ cpc = "entry"
    /\ lines' = Split(content)
    /\ chunks' = ChunkStart.chunks
    /\ current_chunk' = ChunkStart.current_chunk
    /\ current_chunk_start' = ChunkStart.current_chunk_start
    /\ i' = ChunkStart.i
    /\ cpc' = "loop"
    /\ UNCHANGED <<content, language, visitVars, posMode, walkVars>>

\* lines 187-204, one iteration
ChunkStep ==
    /\ cpc = "loop"
    /\ i < Len(lines)
    /\ LET st == ChunkIter(lines, language,
                           [i |-> i, current_chunk |-> current_chunk,
                            current_chunk_start |-> current_chunk_start, chunks |-> chunks])
       IN /\ i' = st.i
          /\ current_chunk' = st.current_chunk
          /\ current_chunk_start' = st.current_chunk_start
          /\ chunks' = st.chunks
    /\ UNCHANGED <<content, language, lines, cpc, visitVars, posMode, walkVars>>

\* line 206
ChunkReturn ==
    /\ cpc = "loop"
    /\ i >= Len(lines)
    /\ cpc' = "done"
    /\ UNCHANGED <<content, language, lines, i, current_chunk, current_chunk_start, chunks,
                   visitVars, posMode, walkVars>>

NextChunk == ChunkEnter \/ ChunkStep \/ ChunkReturn

SpecChunk == InitChunk /\ [][NextChunk]_vars

(***************************************************************************)
(* The structural extractor as a process: module.visit(visitor), one node  *)
(* at a time                                                               *)
(***************************************************************************)
\* visitor = PythonStructureVisitor(); module.visit(visitor) about to start
InitVisit ==
    /\ tree \in Modules
    /\ posMode \in PosModes
    /\ agenda = tree
    /\ visitor = NewVisitor
    /\ vpc = "visiting"
    /\ ChunkIdle /\ WalkIdle

\* the traversal reaches the next node and its handler returns
VisitNode ==
    /\ vpc = "visiting"
    /\ agenda # <<>>
    /\ ~OnVisitRaises(agenda[1])
    /\ visitor' = OnVisit(visitor, agenda[1])
    /\ agenda' = Descend(agenda[1], Tail(agenda))
    /\ UNCHANGED <<tree, vpc, posMode, chunkVars, walkVars>>

\* the handler raises: the exception leaves module.visit
VisitNodeRaises ==
    /\ vpc = "visiting"
    /\ agenda # <<>>
    /\ OnVisitRaises(agenda[1])
    /\ vpc' = "raised"
    /\ UNCHANGED <<tree, agenda, visitor, posMode, chunkVars, walkVars>>

\* module.visit returns
VisitReturn ==
    /\ vpc = "visiting"
    /\ agenda = <<>>
    /\ vpc' = "done"
    /\ UNCHANGED <<tree, agenda, visitor, posMode, chunkVars, walkVars>>

NextVisit == VisitNode \/ VisitNodeRaises \/ VisitReturn

SpecVisit == InitVisit /\ [][NextVisit]_vars

(***************************************************************************)
(* parse_repository as a process, one file of the walk at a time           *)
(***************************************************************************)
\* the call parse_repository(repo_path); repo is what os.walk will list
Init ==
    /\ rootExists \in BOOLEAN
    /\ repo \in Repositories
    /\ rootExists = FALSE => repo = <<>>
    /\ posMode \in PosModes
    /\ idx = 0
    /\ parsed_files = <<>>
    /\ pc = "entry"
    /\ ChunkIdle /\ VisitIdle

\* lines 63-65: the root is missing
WalkRootMissing ==
    /\ pc = "entry"
    /\ ~rootExists
    /\ pc' = "raised"
    /\ UNCHANGED <<rootExists, repo, idx, parsed_files, posMode, chunkVars, visitVars>>

\* lines 63-69
WalkEnter ==
    /\ pc = "entry"
    /\ rootExists
    /\ parsed_files' = <<>>
    /\ idx' = 0
    /\ pc' = "walking"
    /\ UNCHANGED <<rootExists, repo, posMode, chunkVars, visitVars>>

\* lines 70-80, for the next file of the walk
WalkFile ==
    /\ pc = "walking"
    /\ idx < Len(repo)
    /\ LET r == FileStep(parsed_files, repo[idx + 1])
       IN /\ parsed_files' = r.parsed_files
          /\ pc' = IF r.raised THEN "raised" ELSE "walking"
    /\ idx' = idx + 1
    /\ UNCHANGED <<rootExists, repo, posMode, chunkVars, visitVars>>

\* lines 82-85
WalkReturn ==
    /\ pc = "walking"
    /\ idx = Len(repo)
    /\ pc' = "done"
    /\ UNCHANGED <<rootExists, repo, idx, parsed_files, posMode, chunkVars, visitVars>>

Next == WalkRootMissing \/ WalkEnter \/ WalkFile \/ WalkReturn

Spec == Init /\ [][Next]_vars

(***************************************************************************)
(* Claims about the chunker (specification SpecChunk)                      *)
(***************************************************************************)
ChunkDone == cpc = "done"

LastLineIndex == Len(Split(content)) - 1

\* the lines a..b (0-based, inclusive) of the content, joined by newlines
LinesJoined(a, b) == Join(SubSeq(Split(content), a + 1, b + 1))

C2_EmptyYieldsNoChunks ==
    (ChunkDone /\ content = <<>>) => chunks = <<>>

IsLongLine(k) == StrLen(Split(content)[k + 1]) > ChunkLimit

\* the chunks whose span holds line k
ChunksHolding(k) ==
    {j \in 1..Len(chunks) : chunks[j].start_line <= k /\ k <= chunks[j].end_line}

\* C9 as stated: a line longer than the limit is alone in its chunk, in any
\* file: the chunk containing it has start_line = end_line = the line's index
\* and content equal to the line; a file of one such line yields exactly one
\* chunk spanning line 0.
C9_LongLineAlone ==
    ChunkDone =>
        /\ \A k \in 0..LastLineIndex : IsLongLine(k) =>
              /\ ChunksHolding(k) # {}
              /\ \A j \in ChunksHolding(k) :
                    /\ chunks[j].start_line = k
                    /\ chunks[j].end_line = k
                    /\ chunks[j].content = Split(content)[k + 1]
        /\ (LastLineIndex = 0 /\ IsLongLine(0)) =>
              (Len(chunks) = 1 /\ chunks[1].start_line = 0 /\ chunks[1].end_line = 0)

\* line k opens a chunk: it is the first line, or the line before it closed one
\* by being blank or by being longer than the limit on its own
FollowsClosingLine(k) ==
    \/ k = 0
    \/ Strip(Split(content)[k]) = <<>>
    \/ IsLongLine(k - 1)

\* C9 amended: a line longer than the limit always closes the chunk it is
\* appended to, untruncated: exactly one chunk holds it, that chunk ends at the
\* line's index and its content is its lines joined by newlines; the line is
\* alone in its chunk when it is the first line or follows a blank or another
\* over-limit line; a file of one such line yields one chunk spanning line 0.
C9_LongLineClosesChunk ==
    ChunkDone =>
        /\ \A k \in 0..LastLineIndex : IsLongLine(k) =>
              /\ Cardinality(ChunksHolding(k)) = 1
              /\ \A j \in ChunksHolding(k) :
                    /\ chunks[j].end_line = k
                    /\ chunks[j].content = LinesJoined(chunks[j].start_line, k)
                    /\ FollowsClosingLine(k) =>
                          /\ chunks[j].start_line = k
                          /\ chunks[j].content = Split(content)[k + 1]
        /\ (LastLineIndex = 0 /\ IsLongLine(0)) =>
              (Len(chunks) = 1 /\ chunks[1].start_line = 0 /\ chunks[1].end_line = 0)

\* a long line that is not the last line, once alone and once after a short line
C9_Witness ==
    /\ ChunkDone
    /\ \E k \in 1..(LastLineIndex - 1) :
          /\ IsLongLine(k)
          /\ \E j \in ChunksHolding(k) : chunks[j].start_line < k /\ chunks[j].end_line = k

\* C10: chunking loses and duplicates no text: the chunks' contents joined by
\* single newlines, in output order, are the content, and each chunk's content
\* is the lines start_line..end_line of the content joined by newlines.
C10_ChunksRebuildContent ==
    ChunkDone =>
        /\ Join([k \in 1..Len(chunks) |-> chunks[k].content]) = content
        /\ \A k \in 1..Len(chunks) :
              chunks[k].content = LinesJoined(chunks[k].start_line, chunks[k].end_line)

\* two chunks, the first of them two lines closed by the size limit
C10_Witness ==
    /\ ChunkDone
    /\ Len(chunks) >= 2
    /\ chunks[1].end_line > chunks[1].start_line
    /\ StrLen(chunks[1].content) > ChunkLimit
    /\ ~IsLongLine(chunks[1].end_line)

(***************************************************************************)
(* Claims about the structural extractor (specification SpecVisit)         *)
(***************************************************************************)
VisitDone == vpc = "done"

Names(infos) == {infos[k].name : k \in 1..Len(infos)}

\* the names recorded as a method of some class
MethodNames == UNION {Names(visitor.classes[k].methods) : k \in 1..Len(visitor.classes)}

IsPlainFunction(node) == node.kind = "FunctionDef" /\ node.body = <<>>

\* a class with two functions directly in its body, and one module-level function
IsClassWithTwoMethods(node) ==
    /\ node.kind = "ClassDef"
    /\ Len(node.body) = 2
    /\ IsPlainFunction(node.body[1]) /\ IsPlainFunction(node.body[2])

TwoMethodsOneFunction(c, f) ==
    /\ Len(tree) = 2 /\ {c, f} = {1, 2}
    /\ IsClassWithTwoMethods(tree[c])
    /\ IsPlainFunction(tree[f])

WalkDone == pc = "done"

\* the entries of the returned files list for the file called name
EntriesFor(name) == {j \in 1..Len(parsed_files) : parsed_files[j].path = name}

StructuralFields == {"classes", "functions", "imports"}

IsPython(file) == Eligible(file) /\ SupportedLanguages[Lower(file.ext)] = "python"

\* C3: no per-file failure is lost: every eligible file of the walk has an
\* entry in the returned files list, and the entry of a file whose content
\* cannot be read carries an error field.
C3_ReadFailureRecorded ==
    WalkDone =>
        \A k \in 1..Len(repo) : Eligible(repo[k]) =>
            /\ EntriesFor(repo[k].name) # {}
            /\ ~repo[k].readable =>
                  \A j \in EntriesFor(repo[k].name) : "error" \in DOMAIN parsed_files[j]

\* this file's own parse_file call fails in some way
FailsSomehow(file) ==
    /\ Eligible(file)
    /\ \/ ~file.readable
       \/ IsPython(file) /\ "error" \in DOMAIN ParsePythonFile(file)

\* C4: only the root-path check aborts the walk: once the root exists the walk
\* never ends in an exception and always has a next step until it returns,
\* whatever mix of files fail, and every eligible file whose own parse_file
\* call returns has exactly its entry in the returned list, whether other
\* files before or after it failed or not.
C4_OnlyRootCheckAborts ==
    /\ pc = "raised" => ~rootExists
    /\ pc = "walking" =>
          /\ idx <= Len(repo)
          /\ idx < Len(repo) => ~FileStep(parsed_files, repo[idx + 1]).raised
    /\ WalkDone =>
          \A k \in 1..Len(repo) : (Eligible(repo[k]) /\ repo[k].readable) =>
              /\ Cardinality(EntriesFor(repo[k].name)) = 1
              /\ \A j \in EntriesFor(repo[k].name) :
                    parsed_files[j] = ParseFile(repo[k]).value

\* a read error, a syntax error and a walk exception in one walk, with a file
\* parsed after a failure and one parsed before a failure
C4_Witness ==
    /\ WalkDone
    /\ \E k \in 1..Len(repo) : Eligible(repo[k]) /\ ~repo[k].readable
    /\ \E j \in 1..Len(parsed_files) :
          "error" \in DOMAIN parsed_files[j] /\ parsed_files[j].error = "ParserSyntaxError"
    /\ \E j \in 1..Len(parsed_files) :
          "error" \in DOMAIN parsed_files[j] /\ parsed_files[j].error = "AttributeError"
    /\ \E k \in 1..(Len(repo) - 1) :
          FailsSomehow(repo[k]) /\ EntriesFor(repo[k + 1].name) # {}
    /\ \E k \in 2..Len(repo) :
          FailsSomehow(repo[k]) /\ EntriesFor(repo[k - 1].name) # {}

\* C6: a directory holding only a.py = "def f(x):\n    return x\n" parses to
\* exactly one file whose functions are exactly [f(x), lines 1..2], whose
\* classes are empty and whose chunks are exactly one chunk of lines 0..1
\* (stated for a parser whose nodes report their positions, the case in which
\* the function entry can be as claimed).
C6_DefFScenario ==
    (WalkDone /\ Len(repo) = 1 /\ repo[1].name = "a.py" /\ posMode = "tuple") =>
        /\ Len(parsed_files) = 1
        /\ StructuralFields \subseteq DOMAIN parsed_files[1]
        /\ parsed_files[1].functions =
              <<[name |-> "f", parameters |-> <<"x">>, start_line |-> 1, end_line |-> 2]>>
        /\ parsed_files[1].classes = <<>>
        /\ Len(parsed_files[1].chunks) = 1
        /\ parsed_files[1].chunks[1].start_line = 0
        /\ parsed_files[1].chunks[1].end_line = 1

\* every entry holds path, language, content and chunks, never an error next to
\* a structural field, and the chunks are the chunker's output on its content
EntryShape(e) ==
    /\ {"path", "language", "content", "chunks"} \subseteq DOMAIN e
    /\ "error" \in DOMAIN e => DOMAIN e \cap StructuralFields = {}
    /\ e.chunks = ChunkContent(e.content, e.language)

\* C7: in every returned entry error and the structural fields exclude each
\* other and path, language, content and chunks are present; a walk over one
\* syntactically valid and one syntactically invalid Python file returns two
\* entries: the valid file's with the structural fields and no error, the
\* invalid file's with error, no structural field, and chunks equal to the
\* chunker's output on its content.
C7_ErrorExcludesStructure ==
    /\ \A j \in 1..Len(parsed_files) : EntryShape(parsed_files[j])
    /\ WalkDone =>
          \A v, w \in 1..2 :
              (/\ Len(repo) = 2 /\ {v, w} = {1, 2}
               /\ IsPython(repo[v]) /\ repo[v].readable /\ repo[v].parses
               /\ IsPython(repo[w]) /\ repo[w].readable /\ ~repo[w].parses) =>
                  /\ Len(parsed_files) = 2
                  /\ StructuralFields \subseteq DOMAIN parsed_files[v]
                  /\ "error" \notin DOMAIN parsed_files[v]
                  /\ "error" \in DOMAIN parsed_files[w]
                  /\ DOMAIN parsed_files[w] \cap StructuralFields = {}
                  /\ parsed_files[w].chunks = ChunkContent(repo[w].content, "python")

====
